---- MODULE Spec2Model ----
(***************************************************************************)
(* CountMap (src/src/index.js): a map from hash tokens to records          *)
(* {hash, key, count}.  Two program variables, a and b, hold CountMap      *)
(* objects; every table (the `counts` object of a map) lives in a heap and *)
(* a map holds a reference to it, so that sharing a table between two maps *)
(* is expressible.  Each action is one call of one method.                 *)
(***************************************************************************)
EXTENDS Integers, Sequences, FiniteSets, TLC

VARIABLES
    maps,    \* program variable -> CountMap object (its fields), or NoMap
    heap,    \* table reference -> table (token -> record)
    last,    \* the call made last: method, receiver, arguments
    ret,     \* what that call returned (or the error it threw)
    threw,   \* whether that call threw
    prev,    \* maps and heap as they were before that call
    nops,    \* number of calls made so far
    sums     \* per token, the amounts added to a since construction
             \* (valid until a call other than add is made on a)

vars == <<maps, heap, last, ret, threw, prev, nops, sums>>

----------------------------------------------------------------------------
(* Bounds of the model: the largest amount passed to a call, the longest   *)
(* array passed to the constructor or to concat, the number of calls made  *)
(* after construction.                                                     *)

MaxAmount == 1
MaxArrLen == 2
MaxOps == 2

Keys == {1, 2}
Amounts == (-1) .. MaxAmount
Arrays == UNION {[1..n -> Keys] : n \in 0..MaxArrLen}
MapIds == {"a", "b"}

\* a program variable that holds no map: a null reference
NoMap == [counts |-> 0, hash |-> "none", allowNegativeCounts |-> FALSE,
          count |-> "undefined"]
Undefined == "undefined"
EmptyObject == "{}"
RangeError == "RangeError"

\* {}: a table with no record
EmptyTable == [t \in {} |-> 0]

\* the address of the table object made for the map kept in variable x
NewRef(x) == IF x = "a" THEN 1 ELSE 2

----------------------------------------------------------------------------
(* Hash functions: key -> string token *)

Digit(d) ==
    CASE d = 0 -> "0" [] d = 1 -> "1" [] d = 2 -> "2" [] d = 3 -> "3"
      [] d = 4 -> "4" [] d = 5 -> "5" [] d = 6 -> "6" [] d = 7 -> "7"
      [] d = 8 -> "8" [] d = 9 -> "9"

RECURSIVE toString(_)
toString(n) ==
    IF n < 0 THEN "-" \o toString(-n)
    ELSE IF n < 10 THEN Digit(n)
    ELSE toString(n \div 10) \o Digit(n % 10)

\* Math.round(a / 2): the nearest integer, a half rounded up
MathRoundHalf(a) == (a + 1) \div 2

defaultHash(key) == toString(key)

hashHalf(a) == toString(MathRoundHalf(a))

\* a caller's own hash: (k) => k.toString(), the default under another text
renamedHash(k) == toString(k)

HashNames == {"defaultHash", "hashHalf"}

\* this.hash(key)
Hash(name, key) ==
    IF name = "hashHalf" THEN hashHalf(key)
    ELSE IF name = "renamedHash" THEN renamedHash(key)
    ELSE defaultHash(key)

----------------------------------------------------------------------------
(* Own property order of a table: integer-like names, ascending *)

TokenRange == 0 .. (CHOOSE k \in Keys : \A j \in Keys : j <= k)

ParseIndex(tok) == CHOOSE n \in TokenRange : toString(n) = tok

RECURSIVE OwnKeys(_)
OwnKeys(S) ==
    IF S = {} THEN <<>>
    ELSE LET t == CHOOSE t \in S : \A u \in S : ParseIndex(t) <= ParseIndex(u)
         IN <<t>> \o OwnKeys(S \ {t})

\* Object.values(this.counts)
ObjectValues(counts) ==
    LET ks == OwnKeys(DOMAIN counts)
    IN [i \in 1..Len(ks) |-> counts[ks[i]]]

----------------------------------------------------------------------------
(* Methods.  Each takes the heap and the receiver and gives the heap and   *)
(* the receiver after the call, the value returned and whether it threw.   *)

Result(h, m, r, t) == [heap |-> h, self |-> m, ret |-> r, threw |-> t]

\* add that writes its key into the record it finds
add_rekeys(h, m, key, amount) ==
    IF amount < 0 THEN Result(h, m, RangeError, TRUE)
    ELSE
      LET hashed == Hash(m.hash, key)
          counts == h[m.counts]
          after ==
            IF hashed \notin DOMAIN counts
            THEN (hashed :> [hash |-> hashed, key |-> key, count |-> amount])
                   @@ counts
            ELSE [counts EXCEPT ![hashed].count = @ + amount, ![hashed].key = key]
      IN Result([h EXCEPT ![m.counts] = after], m, after[hashed].count, FALSE)

\* add with `count = amount` in place of `count += amount` (line 80)
add_overwrite(h, m, key, amount) ==
    IF amount < 0 THEN Result(h, m, RangeError, TRUE)
    ELSE
      LET hashed == Hash(m.hash, key)
          counts == h[m.counts]
          after ==
            IF hashed \notin DOMAIN counts
            THEN (hashed :> [hash |-> hashed, key |-> key, count |-> amount])
                   @@ counts
            ELSE [counts EXCEPT ![hashed].count = amount]
      IN Result([h EXCEPT ![m.counts] = after], m, after[hashed].count, FALSE)

add(h, m, key, amount) ==
    IF amount < 0 THEN Result(h, m, RangeError, TRUE)
    ELSE
      LET hashed == Hash(m.hash, key)
          counts == h[m.counts]
          after ==
            IF hashed \notin DOMAIN counts
            THEN (hashed :> [hash |-> hashed, key |-> key, count |-> amount])
                   @@ counts
            ELSE [counts EXCEPT ![hashed].count = @ + amount]
      IN Result([h EXCEPT ![m.counts] = after], m, after[hashed].count, FALSE)

\* subtract without the clamp of lines 100-102
subtract_unclamped(h, m, key, amount) ==
    IF amount < 0 THEN Result(h, m, RangeError, TRUE)
    ELSE
      LET hashed == Hash(m.hash, key)
          counts == h[m.counts]
      IN IF hashed \in DOMAIN counts
         THEN LET diff == counts[hashed].count - amount
              IN Result([h EXCEPT ![m.counts][hashed].count = diff],
                        m, diff, FALSE)
         ELSE Result(h, m, 0, FALSE)

\* subtract that removes a record whose count reaches zero
subtract_drops_zero(h, m, key, amount) ==
    IF amount < 0 THEN Result(h, m, RangeError, TRUE)
    ELSE
      LET hashed == Hash(m.hash, key)
          counts == h[m.counts]
      IN IF hashed \in DOMAIN counts
         THEN LET diff == counts[hashed].count - amount
                  stored == IF ~m.allowNegativeCounts /\ diff < 0 THEN 0 ELSE diff
              IN IF stored = 0
                 THEN Result([h EXCEPT ![m.counts] =
                                 [t \in (DOMAIN counts) \ {hashed} |-> counts[t]]],
                             m, 0, FALSE)
                 ELSE Result([h EXCEPT ![m.counts][hashed].count = stored],
                             m, stored, FALSE)
         ELSE Result(h, m, 0, FALSE)

\* subtract that makes a record with count 0 for a token it does not find
subtract_creates(h, m, key, amount) ==
    IF amount < 0 THEN Result(h, m, RangeError, TRUE)
    ELSE
      LET hashed == Hash(m.hash, key)
          counts == h[m.counts]
      IN IF hashed \in DOMAIN counts
         THEN LET diff == counts[hashed].count - amount
                  stored == IF ~m.allowNegativeCounts /\ diff < 0 THEN 0 ELSE diff
              IN Result([h EXCEPT ![m.counts][hashed].count = stored],
                        m, stored, FALSE)
         ELSE Result([h EXCEPT ![m.counts] =
                         (hashed :> [hash |-> hashed, key |-> key, count |-> 0])
                           @@ counts],
                     m, 0, FALSE)

subtract(h, m, key, amount) ==
    IF amount < 0 THEN Result(h, m, RangeError, TRUE)
    ELSE
      LET hashed == Hash(m.hash, key)
          counts == h[m.counts]
      IN IF hashed \in DOMAIN counts
         THEN LET diff == counts[hashed].count - amount
                  stored == IF ~m.allowNegativeCounts /\ diff < 0 THEN 0 ELSE diff
              IN Result([h EXCEPT ![m.counts][hashed].count = stored],
                        m, stored, FALSE)
         ELSE Result(h, m, 0, FALSE)

\* set that adds the amount to the count it finds
set_accumulates(h, m, key, amount) ==
    IF ~m.allowNegativeCounts /\ amount < 0 THEN Result(h, m, RangeError, TRUE)
    ELSE
      LET hashed == Hash(m.hash, key)
          counts == h[m.counts]
      IN IF hashed \notin DOMAIN counts
         THEN add(h, m, key, amount)
         ELSE Result([h EXCEPT ![m.counts][hashed].count = @ + amount],
                     m, amount, FALSE)

\* delete that leaves the record in the table with count 0
delete_zeroes(h, m, key) ==
    LET hashed == Hash(m.hash, key)
        counts == h[m.counts]
    IN IF hashed \in DOMAIN counts
       THEN Result([h EXCEPT ![m.counts][hashed].count = 0], m, TRUE, FALSE)
       ELSE Result(h, m, FALSE, FALSE)

set(h, m, key, amount) ==
    IF ~m.allowNegativeCounts /\ amount < 0 THEN Result(h, m, RangeError, TRUE)
    ELSE
      LET hashed == Hash(m.hash, key)
          counts == h[m.counts]
      IN IF hashed \notin DOMAIN counts
         THEN add(h, m, key, amount)
         ELSE Result([h EXCEPT ![m.counts][hashed].count = amount],
                     m, amount, FALSE)

delete(h, m, key) ==
    LET hashed == Hash(m.hash, key)
        counts == h[m.counts]
    IN IF hashed \in DOMAIN counts
       THEN Result([h EXCEPT ![m.counts] =
                       [t \in (DOMAIN counts) \ {hashed} |-> counts[t]]],
                   m, TRUE, FALSE)
       ELSE Result(h, m, FALSE, FALSE)

get(h, m, key) ==
    LET hashed == Hash(m.hash, key)
    IN IF hashed \in DOMAIN h[m.counts] THEN h[m.counts][hashed].count ELSE 0

has(h, m, key) == Hash(m.hash, key) \in DOMAIN h[m.counts]

keys(h, m) ==
    LET vals == ObjectValues(h[m.counts])
    IN [i \in 1..Len(vals) |-> vals[i].key]

entries(h, m) ==
    LET vals == ObjectValues(h[m.counts])
    IN [i \in 1..Len(vals) |-> <<vals[i].key, vals[i].count>>]

\* for (let key of arr) map.add(key)
RECURSIVE concatLoop(_, _, _, _)
concatLoop(h, m, arr, i) ==
    IF i > Len(arr) THEN Result(h, m, m, FALSE)
    ELSE concatLoop(add(h, m, arr[i], 1).heap, m, arr, i + 1)

\* new CountMap({array, hash, allowNegativeCounts}), its table put at ref
constructor(h, ref, array, hash, allowNegativeCounts) ==
    LET this == [counts |-> ref, hash |-> hash,
                 allowNegativeCounts |-> allowNegativeCounts,
                 count |-> Undefined]
    IN concatLoop([h EXCEPT ![ref] = EmptyTable], this, array, 1)

\* entries.forEach(([key, count]) => cloned.set(key, count))
RECURSIVE cloneLoop(_, _, _, _)
cloneLoop(h, cloned, ents, i) ==
    IF i > Len(ents) THEN Result(h, cloned, cloned, FALSE)
    ELSE LET r == set(h, cloned, ents[i][1], ents[i][2])
         IN IF r.threw THEN r ELSE cloneLoop(r.heap, cloned, ents, i + 1)

\* a clone that takes the receiver's table object instead of copying it
clone_shared(h, m, ref) ==
    Result(h, m, [counts |-> m.counts, hash |-> m.hash,
                  allowNegativeCounts |-> m.allowNegativeCounts,
                  count |-> Undefined], FALSE)

\* this.clone(), the clone's table put at ref; ret is the clone
clone(h, m, ref) ==
    LET made == constructor(h, ref, <<>>, m.hash, m.allowNegativeCounts)
        r == cloneLoop(made.heap, made.ret, entries(h, m), 1)
    IN IF r.threw THEN Result(h, m, RangeError, TRUE)
       ELSE Result(r.heap, m, r.ret, FALSE)

\* this.concat(arr, inPlace); ret is the map operated on
concat(h, m, arr, inPlace, ref) ==
    IF inPlace THEN concatLoop(h, m, arr, 1)
    ELSE LET c == clone(h, m, ref)
         IN IF c.threw THEN c
            ELSE LET r == concatLoop(c.heap, c.ret, arr, 1)
                 IN Result(r.heap, m, r.ret, FALSE)

\* entries.forEach(([key, count]) => this.add(key, count))
RECURSIVE rehashLoop(_, _, _, _)
rehashLoop(h, m, ents, i) ==
    IF i > Len(ents) THEN Result(h, m, m, FALSE)
    ELSE LET r == add(h, m, ents[i][1], ents[i][2])
         IN IF r.threw THEN r ELSE rehashLoop(r.heap, m, ents, i + 1)

\* this.rehash(): `this.count = {}` sets the field count, not the table
rehash(h, m) ==
    LET ents == entries(h, m)
        this == [m EXCEPT !.count = EmptyObject]
    IN rehashLoop(h, this, ents, 1)

\* the source text of a hash function, as Function.prototype.toString gives it
HashSource(name) ==
    IF name = "hashHalf" THEN "(a) => Math.round(a / 2).toString()"
    ELSE IF name = "renamedHash" THEN "(k) => k.toString()"
    ELSE "(key) => key.toString()"

\* a loop that runs while i <= count: one copy too many
RECURSIVE Repeat_inclusive(_, _)
Repeat_inclusive(key, count) ==
    IF count < 0 THEN <<>> ELSE <<key>> \o Repeat_inclusive(key, count - 1)

RECURSIVE Repeat(_, _)
Repeat(key, count) == IF count <= 0 THEN <<>> ELSE <<key>> \o Repeat(key, count - 1)

RECURSIVE toArrayReduce(_, _, _)
toArrayReduce(arr, ents, i) ==
    IF i > Len(ents) THEN arr
    ELSE toArrayReduce(arr \o Repeat(ents[i][1], ents[i][2]), ents, i + 1)

\* equals that tests the receiver's keys alone
equals_oneway(h, m, other) ==
    IF HashSource(other.hash) # HashSource(m.hash)
         \/ other.allowNegativeCounts # m.allowNegativeCounts
    THEN FALSE
    ELSE LET thisKeys == keys(h, m)
             testKey(key) == get(h, m, key) = get(h, other, key)
         IN \A i \in 1..Len(thisKeys) : testKey(thisKeys[i])

toArray(h, m) == toArrayReduce(<<>>, entries(h, m), 1)

equals(h, m, other) ==
    IF HashSource(other.hash) # HashSource(m.hash)
         \/ other.allowNegativeCounts # m.allowNegativeCounts
    THEN FALSE
    ELSE LET otherKeys == keys(h, other)
             thisKeys == keys(h, m)
             testKey(key) == get(h, m, key) = get(h, other, key)
         IN /\ \A i \in 1..Len(otherKeys) : testKey(otherKeys[i])
            /\ \A i \in 1..Len(thisKeys) : testKey(thisKeys[i])

\* a get that leaves a record with count 0 under a token it did not find
getCall_creates(h, m, key) ==
    LET hashed == Hash(m.hash, key)
        counts == h[m.counts]
    IN IF hashed \in DOMAIN counts
       THEN Result(h, m, counts[hashed].count, FALSE)
       ELSE Result([h EXCEPT ![m.counts] =
                       (hashed :> [hash |-> hashed, key |-> key, count |-> 0])
                         @@ counts],
                   m, 0, FALSE)

\* The calls of the query methods: what they return, and the heap and the
\* receiver they leave
getCall(h, m, key) == Result(h, m, get(h, m, key), FALSE)

hasCall(h, m, key) == Result(h, m, has(h, m, key), FALSE)

keysCall(h, m) == Result(h, m, keys(h, m), FALSE)

entriesCall(h, m) == Result(h, m, entries(h, m), FALSE)

toArrayCall(h, m) == Result(h, m, toArray(h, m), FALSE)

equalsCall(h, m, other) == Result(h, m, equals(h, m, other), FALSE)

----------------------------------------------------------------------------
(* The amounts added per token, kept beside the program *)

Tokens == {Hash(n, k) : n \in HashNames, k \in Keys}

Occurrences(array, hash, tok) ==
    Cardinality({i \in 1..Len(array) : Hash(hash, array[i]) = tok})

----------------------------------------------------------------------------
(* State machine *)

Call(op, on, key, amount, arr) ==
    [op |-> op, on |-> on, key |-> key, amount |-> amount, arr |-> arr]

Snapshot == [maps |-> maps, heap |-> heap]

Exists(x) == maps[x].counts # 0

Init ==
    \E array \in Arrays, hash \in HashNames, allow \in BOOLEAN :
      LET r == constructor([ref \in {1, 2} |-> EmptyTable], NewRef("a"),
                           array, hash, allow)
      IN /\ maps = [x \in MapIds |-> IF x = "a" THEN r.ret ELSE NoMap]
         /\ heap = r.heap
         /\ last = Call("constructor", "a", 0, 0, array)
         /\ ret = r.ret
         /\ threw = FALSE
         /\ prev = [maps |-> [x \in MapIds |-> NoMap],
                    heap |-> [ref \in {1, 2} |-> EmptyTable]]
         /\ nops = 0
         /\ sums = [valid |-> TRUE,
                    of |-> [tok \in Tokens |-> Occurrences(array, hash, tok)]]

\* a call on the map in variable x that ended with result r
Applied(x, r, call) ==
    /\ maps' = [maps EXCEPT ![x] = r.self]
    /\ heap' = r.heap
    /\ ret' = r.ret
    /\ threw' = r.threw
    /\ last' = call
    /\ prev' = Snapshot
    /\ nops' = nops + 1

\* a query on the map in variable x that ended with result r
Queried(x, r, call) ==
    /\ Applied(x, r, call)
    /\ UNCHANGED sums

NoSums == [valid |-> FALSE, of |-> [tok \in Tokens |-> 0]]

Spoil(x) == sums' = IF x = "a" THEN NoSums ELSE sums

Add(x, key, amount) ==
    /\ Exists(x) /\ nops < MaxOps
    /\ LET r == add(heap, maps[x], key, amount)
       IN /\ Applied(x, r, Call("add", x, key, amount, <<>>))
          /\ sums' = IF x = "a" /\ sums.valid /\ ~r.threw
                     THEN [sums EXCEPT !.of[Hash(maps[x].hash, key)] = @ + amount]
                     ELSE sums

Subtract(x, key, amount) ==
    /\ Exists(x) /\ nops < MaxOps
    /\ Applied(x, subtract(heap, maps[x], key, amount),
               Call("subtract", x, key, amount, <<>>))
    /\ Spoil(x)

Set(x, key, amount) ==
    /\ Exists(x) /\ nops < MaxOps
    /\ Applied(x, set(heap, maps[x], key, amount),
               Call("set", x, key, amount, <<>>))
    /\ Spoil(x)

Delete(x, key) ==
    /\ Exists(x) /\ nops < MaxOps
    /\ Applied(x, delete(heap, maps[x], key), Call("delete", x, key, 0, <<>>))
    /\ Spoil(x)

\* x.concat(arr, true)
ConcatInPlace(x, arr) ==
    /\ Exists(x) /\ nops < MaxOps
    /\ Applied(x, concat(heap, maps[x], arr, TRUE, NewRef(x)),
               Call("concat", x, 0, 0, arr))
    /\ Spoil(x)

Rehash(x) ==
    /\ Exists(x) /\ nops < MaxOps
    /\ Applied(x, rehash(heap, maps[x]), Call("rehash", x, 0, 0, <<>>))
    /\ Spoil(x)

\* x.hash = name
SetHash(x, name) ==
    /\ Exists(x) /\ nops < MaxOps
    /\ maps[x].hash # name
    /\ Applied(x, Result(heap, [maps[x] EXCEPT !.hash = name], name, FALSE),
               Call("sethash", x, 0, 0, <<>>))
    /\ Spoil(x)

\* a call on a whose result, a new map, is assigned to b unless the call threw
Assigned(r, call) ==
    /\ maps' = IF r.threw THEN maps ELSE [maps EXCEPT !["b"] = r.ret]
    /\ heap' = IF r.threw THEN heap ELSE r.heap
    /\ ret' = r.ret
    /\ threw' = r.threw
    /\ last' = call
    /\ prev' = Snapshot
    /\ nops' = nops + 1
    /\ UNCHANGED sums

\* b = a.clone()
Clone ==
    /\ nops < MaxOps
    /\ Assigned(clone(heap, maps["a"], NewRef("b")),
                Call("clone", "a", 0, 0, <<>>))

\* b = a.concat(arr)
ConcatNew(arr) ==
    /\ nops < MaxOps
    /\ Assigned(concat(heap, maps["a"], arr, FALSE, NewRef("b")),
                Call("concatNew", "a", 0, 0, arr))

Get(x, key) ==
    /\ Exists(x) /\ nops < MaxOps
    /\ Queried(x, getCall(heap, maps[x], key), Call("get", x, key, 0, <<>>))

Has(x, key) ==
    /\ Exists(x) /\ nops < MaxOps
    /\ Queried(x, hasCall(heap, maps[x], key), Call("has", x, key, 0, <<>>))

KeysOf(x) ==
    /\ Exists(x) /\ nops < MaxOps
    /\ Queried(x, keysCall(heap, maps[x]), Call("keys", x, 0, 0, <<>>))

Entries(x) ==
    /\ Exists(x) /\ nops < MaxOps
    /\ Queried(x, entriesCall(heap, maps[x]), Call("entries", x, 0, 0, <<>>))

ToArray(x) ==
    /\ Exists(x) /\ nops < MaxOps
    /\ Queried(x, toArrayCall(heap, maps[x]), Call("toArray", x, 0, 0, <<>>))

\* x.equals(y); key names the argument
Equals(x, y) ==
    /\ Exists(x) /\ Exists(y) /\ nops < MaxOps
    /\ Queried(x, equalsCall(heap, maps[x], maps[y]),
               Call("equals", x, y, 0, <<>>))

\* the calls of a program that works on a, and clones it into b
Next ==
    \/ \E key \in Keys, amount \in Amounts : Add("a", key, amount)
    \/ \E key \in Keys, amount \in Amounts : Subtract("a", key, amount)
    \/ \E key \in Keys, amount \in Amounts : Set("a", key, amount)
    \/ \E key \in Keys : Delete("a", key)
    \/ \E arr \in Arrays : ConcatInPlace("a", arr)
    \/ Rehash("a")
    \/ \E name \in HashNames : SetHash("a", name)
    \/ Clone
    \/ \E arr \in Arrays : ConcatNew(arr)
    \/ \E key \in Keys : Get("a", key)
    \/ \E key \in Keys : Has("a", key)
    \/ KeysOf("a")
    \/ Entries("a")
    \/ ToArray("a")
    \/ \E y \in MapIds : Equals("a", y)

Spec == Init /\ [][Next]_vars

\* the calls of a program that works on both a and the map it made from a
NextPair ==
    \/ \E x \in MapIds, key \in Keys, amount \in Amounts : Add(x, key, amount)
    \/ \E x \in MapIds, key \in Keys, amount \in Amounts : Subtract(x, key, amount)
    \/ \E x \in MapIds, key \in Keys, amount \in Amounts : Set(x, key, amount)
    \/ \E x \in MapIds, key \in Keys : Delete(x, key)
    \/ \E x \in MapIds, arr \in Arrays : ConcatInPlace(x, arr)
    \/ \E x \in MapIds : Rehash(x)
    \/ \E x \in MapIds, name \in HashNames : SetHash(x, name)
    \/ Clone
    \/ \E arr \in Arrays : ConcatNew(arr)
    \/ \E x \in MapIds, y \in MapIds : Equals(x, y)

SpecPair == Init /\ [][NextPair]_vars

\* b = new CountMap({array, hash, allowNegativeCounts})
Construct(array, hash, allow) ==
    /\ nops < MaxOps
    /\ ~Exists("b")
    /\ Assigned(constructor(heap, NewRef("b"), array, hash, allow),
                Call("constructor", "b", 0, 0, array))

\* the calls of a program that builds a second map b and compares the two
NextEq ==
    \/ \E array \in Arrays, hash \in HashNames \cup {"renamedHash"},
          allow \in BOOLEAN : Construct(array, hash, allow)
    \/ \E x \in MapIds, key \in Keys, amount \in Amounts : Set(x, key, amount)
    \/ \E x \in MapIds, key \in Keys : Delete(x, key)
    \/ \E x \in MapIds, y \in MapIds : Equals(x, y)

SpecEq == Init /\ [][NextEq]_vars

----------------------------------------------------------------------------
(* Properties *)

Mutators == {"add", "subtract", "set", "delete", "concat", "rehash"}

Table(x) == heap[maps[x].counts]

Existed(x) == prev.maps[x].counts # 0

PrevTable(x) == prev.heap[prev.maps[x].counts]

\* C1: in a map whose allowNegativeCounts flag is false every record has
\* count >= 0, whatever calls (accepted or rejected) were made.
C1_NonNegativeCounts ==
    \A x \in MapIds :
        (Exists(x) /\ ~maps[x].allowNegativeCounts)
            => \A t \in DOMAIN Table(x) : Table(x)[t].count >= 0

\* a subtract that went below zero in a map with the flag false
C1_Witness ==
    /\ last.op = "subtract" /\ ~threw
    /\ ~maps[last.on].allowNegativeCounts
    /\ LET hashed == Hash(maps[last.on].hash, last.key)
       IN /\ hashed \in DOMAIN PrevTable(last.on)
          /\ PrevTable(last.on)[hashed].count - last.amount < 0

\* every record of the table of m is stored under the token the current hash
\* function gives its key
Consistent(h, m) ==
    \A t \in DOMAIN h[m.counts] : h[m.counts][t].hash = Hash(m.hash, h[m.counts][t].key)

RECURSIVE CountSum(_, _)
CountSum(tab, S) ==
    IF S = {} THEN 0
    ELSE LET t == CHOOSE u \in S : TRUE
         IN tab[t].count + CountSum(tab, S \ {t})

Pairs(tab) == {<<tab[t].key, tab[t].count>> : t \in DOMAIN tab}

\* C2: set raises exactly when amount is negative and allowNegativeCounts is
\* false; otherwise it succeeds, record or no record, and get(key) is amount.
C2_SetRaisesIffNegativeDisallowed ==
    last.op = "set" =>
        /\ threw <=> (last.amount < 0 /\ ~maps[last.on].allowNegativeCounts)
        /\ ~threw => get(heap, maps[last.on], last.key) = last.amount

\* C3: a mutating call that raises leaves the receiver's table as it was.
C3_RejectedCallChangesNothing ==
    (threw /\ last.op \in Mutators) => Table(last.on) = PrevTable(last.on)

\* C4: only add and subtract with a negative amount, and set with a negative
\* amount in a map that disallows negative counts, raise; every other call
\* returns normally in every reachable state.
C4_OnlyBadAmountsRaise ==
    threw =>
        \/ last.op \in {"add", "subtract"} /\ last.amount < 0
        \/ /\ last.op = "set" /\ last.amount < 0
           /\ ~maps[last.on].allowNegativeCounts

\* C5: clone() of a map (whose records are stored under its current hash
\* function) returns a map with the same hash function, flag and
\* (representative key, count) pairs, equal to the original both ways.
C5_CloneEqualsOriginal ==
    (last.op = "clone" /\ Consistent(prev.heap, prev.maps["a"])) =>
        /\ ~threw
        /\ maps["b"].hash = maps["a"].hash
        /\ maps["b"].allowNegativeCounts = maps["a"].allowNegativeCounts
        /\ Pairs(Table("b")) = Pairs(Table("a"))
        /\ equals(heap, maps["b"], maps["a"])
        /\ equals(heap, maps["a"], maps["b"])

\* C6: a mutating call on a map leaves the table of the other map (its clone,
\* or the map it was cloned from) unchanged, and with it get and has.
C6_CloneIndependent ==
    (last.op \in Mutators /\ Exists("a") /\ Exists("b")
       /\ Existed("a") /\ Existed("b")) =>
        LET other == IF last.on = "a" THEN "b" ELSE "a"
        IN /\ Table(other) = PrevTable(other)
           /\ \A K \in Keys :
                /\ get(heap, maps[other], K)
                     = get(prev.heap, prev.maps[other], K)
                /\ has(heap, maps[other], K)
                     = has(prev.heap, prev.maps[other], K)

\* a call that changed the clone's table while the original exists
C6_Witness ==
    /\ last.op \in Mutators /\ last.on = "b" /\ ~threw
    /\ Exists("a") /\ Existed("b")
    /\ Table("b") # PrevTable("b")
    /\ DOMAIN Table("a") # {}

\* C7: rehash() after the hash function was replaced rebuilds the table: one
\* record per new token of the former representative keys, its count the sum
\* of the former counts of the keys with that token, no old token left.
C7_RehashRebuilds ==
    (last.op = "rehash" /\ ~threw
       /\ ~Consistent(prev.heap, prev.maps[last.on])) =>
        LET old == PrevTable(last.on)
            new == Table(last.on)
            hash == maps[last.on].hash
            Merged(tok) == {t \in DOMAIN old : Hash(hash, old[t].key) = tok}
        IN /\ DOMAIN new = {Hash(hash, old[t].key) : t \in DOMAIN old}
           /\ \A tok \in DOMAIN new : new[tok].count = CountSum(old, Merged(tok))

\* C8: as long as only add has been called on a since its construction,
\* get(K) is the sum of the amounts added (one per array element) under K's
\* token, and add returns that sum.
C8_AddAccumulates ==
    sums.valid =>
        /\ \A K \in Keys :
              get(heap, maps["a"], K) = sums.of[Hash(maps["a"].hash, K)]
        /\ (last.op = "add" /\ last.on = "a" /\ ~threw)
              => ret = sums.of[Hash(maps["a"].hash, last.key)]

\* an add of a positive amount to a token that already had a positive count
C8_Witness ==
    /\ sums.valid /\ last.op = "add" /\ last.on = "a" /\ ~threw
    /\ last.amount > 0
    /\ get(prev.heap, prev.maps["a"], last.key) > 0

\* C9: subtract(key, amount >= 0) on a token with a record of count c stores
\* and returns c - amount (not below 0 when negative counts are disallowed),
\* keeps the record and changes no other record.
C9_SubtractExisting ==
    (last.op = "subtract" /\ last.amount >= 0
       /\ has(prev.heap, prev.maps[last.on], last.key)) =>
        LET m == maps[last.on]
            hashed == Hash(m.hash, last.key)
            old == PrevTable(last.on)
            new == Table(last.on)
            diff == old[hashed].count - last.amount
            expected == IF ~m.allowNegativeCounts /\ diff < 0 THEN 0 ELSE diff
        IN /\ ~threw
           /\ ret = expected
           /\ has(heap, m, last.key)
           /\ DOMAIN new = DOMAIN old
           /\ new[hashed] = [old[hashed] EXCEPT !.count = expected]
           /\ \A t \in (DOMAIN new) \ {hashed} : new[t] = old[t]

\* a subtract that brought an existing record to count 0, another record present
C9_Witness ==
    /\ last.op = "subtract" /\ last.amount > 0 /\ ~threw
    /\ has(prev.heap, prev.maps[last.on], last.key)
    /\ get(prev.heap, prev.maps[last.on], last.key) > 0
    /\ get(heap, maps[last.on], last.key) = 0
    /\ Cardinality(DOMAIN Table(last.on)) > 1

\* C10: subtract(key, amount >= 0) on a token with no record returns 0 and
\* changes nothing: no record is made and has(key) is still false.
C10_SubtractAbsent ==
    (last.op = "subtract" /\ last.amount >= 0
       /\ ~has(prev.heap, prev.maps[last.on], last.key)) =>
        /\ ~threw
        /\ ret = 0
        /\ heap = prev.heap
        /\ maps = prev.maps
        /\ ~has(heap, maps[last.on], last.key)

\* a subtract on a token without a record, in a map that allows negative counts
C10_Witness ==
    /\ last.op = "subtract" /\ last.amount > 0 /\ ~threw
    /\ maps[last.on].allowNegativeCounts
    /\ ~has(prev.heap, prev.maps[last.on], last.key)
    /\ DOMAIN PrevTable(last.on) # {}

\* the calls after which variable b holds another map than before
Rebinding == {"clone", "concatNew", "constructor"}

\* C11: once a token has a record, has(K) is true for every key K of that
\* token and stays true through every later call, also one that brings the
\* count to 0 or below; only a delete of that token makes has(K) false again.
\* A call of add or set that returns makes has true for the keys of its token.
C11_HasPersists ==
    \A x \in MapIds :
        (Exists(x) /\ Existed(x) /\ ~(x = "b" /\ last.op \in Rebinding)) =>
            /\ \A t \in DOMAIN PrevTable(x) :
                   \/ t \in DOMAIN Table(x)
                   \/ /\ last.op = "delete" /\ last.on = x /\ ~threw
                      /\ t = Hash(maps[x].hash, last.key)
            /\ last.op # "sethash" =>
                   \A K \in Keys :
                       has(prev.heap, prev.maps[x], K) =>
                           \/ has(heap, maps[x], K)
                           \/ /\ last.op = "delete" /\ last.on = x /\ ~threw
                              /\ Hash(maps[x].hash, K) = Hash(maps[x].hash, last.key)
            /\ (last.op \in {"add", "set"} /\ last.on = x /\ ~threw) =>
                   \A K \in Keys :
                       Hash(maps[x].hash, K) = Hash(maps[x].hash, last.key)
                           => has(heap, maps[x], K)

\* a record made by one call and brought to count 0 by the next is still there
C11_Witness ==
    /\ nops = 2 /\ ~threw
    /\ last.op \in {"subtract", "set"}
    /\ ~(Hash(maps[last.on].hash, last.key) \in DOMAIN PrevTable(last.on)
           /\ PrevTable(last.on)[Hash(maps[last.on].hash, last.key)].count = 0)
    /\ has(prev.heap, prev.maps[last.on], last.key)
    /\ Table(last.on)[Hash(maps[last.on].hash, last.key)].count = 0
    /\ has(heap, maps[last.on], last.key)

\* the sum of the positive counts of the records of S whose key is in K
RECURSIVE PositiveSum(_, _, _)
PositiveSum(tab, S, K) ==
    IF S = {} THEN 0
    ELSE LET t == CHOOSE u \in S : TRUE
             c == IF tab[t].key \in K /\ tab[t].count > 0 THEN tab[t].count ELSE 0
         IN c + PositiveSum(tab, S \ {t}, K)

CountIn(arr, k) == Cardinality({i \in 1 .. Len(arr) : arr[i] = k})

\* C12: in every state toArray() holds the key of each record max(count, 0)
\* times and nothing else: its length is the sum of the positive counts, and
\* a record with count <= 0 adds nothing and raises nothing.
C12_ToArrayRepeatsPositiveCounts ==
    /\ \A x \in MapIds :
           Exists(x) =>
               LET arr == toArray(heap, maps[x])
                   tab == Table(x)
               IN /\ Len(arr) = PositiveSum(tab, DOMAIN tab, Keys)
                  /\ \A k \in Keys :
                         CountIn(arr, k) = PositiveSum(tab, DOMAIN tab, {k})
                  /\ \A i \in 1 .. Len(arr) : arr[i] \in Keys
    /\ last.op = "toArray" =>
           /\ ~threw
           /\ ret = toArray(prev.heap, prev.maps[last.on])

\* toArray called on a table with a negative and a positive count
C12_Witness ==
    /\ last.op = "toArray" /\ ~threw
    /\ \E t \in DOMAIN Table(last.on) : Table(last.on)[t].count < 0
    /\ \E t \in DOMAIN Table(last.on) : Table(last.on)[t].count > 0
    /\ Len(ret) > 0

\* C16: delete(key) on a token that has a record returns true and takes the
\* whole record out, so that has is false and get is 0 for every key of that
\* token; on a token without a record it returns false and changes nothing.
\* The records of the other tokens stay as they were.
C16_DeleteRemovesRecord ==
    last.op = "delete" =>
        LET x == last.on
            hashed == Hash(maps[x].hash, last.key)
            old == PrevTable(x)
            new == Table(x)
        IN /\ ~threw
           /\ maps = prev.maps
           /\ \A t \in (DOMAIN new) \ {hashed} : t \in DOMAIN old /\ new[t] = old[t]
           /\ IF hashed \in DOMAIN old
              THEN /\ ret = TRUE
                   /\ DOMAIN new = (DOMAIN old) \ {hashed}
                   /\ \A K \in Keys :
                          Hash(maps[x].hash, K) = hashed =>
                              /\ ~has(heap, maps[x], K)
                              /\ get(heap, maps[x], K) = 0
              ELSE /\ ret = FALSE
                   /\ heap = prev.heap

\* a delete that took out a record with a positive count and left another
C16_Witness ==
    /\ last.op = "delete" /\ ret = TRUE
    /\ get(prev.heap, prev.maps[last.on], last.key) > 0
    /\ ~has(heap, maps[last.on], last.key)
    /\ DOMAIN Table(last.on) # {}

\* C17: whenever set(key, amount) returns, it returns amount, and get(K) is
\* amount for every key K of the same token: the count is overwritten, not
\* added to, and a record is made where there was none. The counts of the
\* other tokens stay as they were.
C17_SetOverwrites ==
    (last.op = "set" /\ ~threw) =>
        LET x == last.on
            hashed == Hash(maps[x].hash, last.key)
            old == PrevTable(x)
            new == Table(x)
        IN /\ ret = last.amount
           /\ maps = prev.maps
           /\ DOMAIN new = (DOMAIN old) \cup {hashed}
           /\ \A t \in (DOMAIN new) \ {hashed} : new[t] = old[t]
           /\ \A K \in Keys :
                  Hash(maps[x].hash, K) = hashed =>
                      /\ has(heap, maps[x], K)
                      /\ get(heap, maps[x], K) = last.amount

\* a set that overwrote a count other than 0 with another amount, a record of
\* another token beside it
C17_Witness ==
    /\ last.op = "set" /\ ~threw
    /\ has(prev.heap, prev.maps[last.on], last.key)
    /\ get(prev.heap, prev.maps[last.on], last.key) \notin {0, last.amount}
    /\ last.amount # 0
    /\ get(heap, maps[last.on], last.key) = last.amount
    /\ Cardinality(DOMAIN Table(last.on)) > 1

\* the first element of arr whose token under hash is t
FirstWith(arr, hash, t) ==
    LET i == CHOOSE n \in 1 .. Len(arr) :
                 /\ Hash(hash, arr[n]) = t
                 /\ \A j \in 1 .. (n - 1) : Hash(hash, arr[j]) # t
    IN arr[i]

\* C18: the key of a record is the key of the call that made the record. A
\* later add, subtract, set or concat with another key of the same token
\* changes the count alone, and keys() and entries() give one key for each
\* token, the one first seen.
C18_FirstKeyRepresents ==
    \A x \in MapIds :
      /\ (Exists(x) /\ last.op = "constructor" /\ last.on = x /\ ~threw) =>
             \A t \in DOMAIN Table(x) :
                 Table(x)[t].key = FirstWith(last.arr, maps[x].hash, t)
      /\ (Exists(x) /\ Existed(x) /\ ~(x = "b" /\ last.op \in Rebinding)) =>
            LET old == PrevTable(x)
                new == Table(x)
                hash == maps[x].hash
                ks == keys(heap, maps[x])
                es == entries(heap, maps[x])
            IN /\ \A t \in (DOMAIN old) \cap (DOMAIN new) :
                      new[t].key = old[t].key /\ new[t].hash = old[t].hash
               /\ \A t \in (DOMAIN new) \ (DOMAIN old) :
                      /\ last.on = x
                      /\ new[t].hash = t
                      /\ last.op \in {"add", "set", "concat", "rehash"}
                      /\ last.op \in {"add", "set"} =>
                             t = Hash(hash, last.key) /\ new[t].key = last.key
                      /\ last.op = "concat" =>
                             new[t].key = FirstWith(last.arr, hash, t)
               /\ Len(ks) = Cardinality(DOMAIN new)
               /\ Len(es) = Len(ks)
               /\ \A k \in Keys :
                      CountIn(ks, k) = Cardinality({t \in DOMAIN new : new[t].key = k})
               /\ \A i \in 1 .. Len(es) :
                      /\ es[i][1] = ks[i]
                      /\ \E t \in DOMAIN new : es[i] = <<new[t].key, new[t].count>>

\* a call with another key of a token that has a record: the count changed,
\* the key of the record did not
C18_Witness ==
    /\ last.op \in {"add", "subtract", "set", "concat"} /\ ~threw
    /\ LET x == last.on
           givenKeys == IF last.op = "concat"
                        THEN {last.arr[i] : i \in 1 .. Len(last.arr)}
                        ELSE {last.key}
       IN \E t \in DOMAIN PrevTable(x) :
              /\ t \in DOMAIN Table(x)
              /\ \E k \in givenKeys :
                     Hash(maps[x].hash, k) = t /\ k # PrevTable(x)[t].key
              /\ Table(x)[t].count # PrevTable(x)[t].count
              /\ Table(x)[t].key = PrevTable(x)[t].key
              /\ keys(heap, maps[x]) = <<PrevTable(x)[t].key>>

Queries == {"get", "has", "keys", "entries", "toArray", "equals"}

\* C19: get, has, keys, entries, toArray and equals read only: the tables of
\* the receiver and of the argument are after the call what they were before
\* it. get and has on a key whose token has no record return 0 and false, and
\* make no record.
C19_QueriesReadOnly ==
    last.op \in Queries =>
        /\ ~threw
        /\ heap = prev.heap
        /\ maps = prev.maps
        /\ (last.op \in {"get", "has"}
              /\ Hash(maps[last.on].hash, last.key) \notin DOMAIN PrevTable(last.on)) =>
               /\ ret = (IF last.op = "get" THEN 0 ELSE FALSE)
               /\ Hash(maps[last.on].hash, last.key) \notin DOMAIN Table(last.on)

\* a get of a key without a record, asked of a table that has other records
C19_Witness ==
    /\ last.op = "get" /\ ~threw /\ ret = 0
    /\ DOMAIN Table(last.on) # {}
    /\ Hash(maps[last.on].hash, last.key) \notin DOMAIN Table(last.on)
    /\ heap = prev.heap

\* C20: a rehash() of a map whose records all lie under the tokens of its
\* present hash function (the hash function was not changed) changes nothing
\* that get and has can see.
C20_RehashUnchangedHashIsNoOp ==
    (last.op = "rehash" /\ Consistent(prev.heap, prev.maps[last.on])) =>
        /\ ~threw
        /\ \A K \in Keys :
               /\ get(heap, maps[last.on], K) = get(prev.heap, prev.maps[last.on], K)
               /\ has(heap, maps[last.on], K) = has(prev.heap, prev.maps[last.on], K)

CountAt(tab, t) == IF t \in DOMAIN tab THEN tab[t].count ELSE 0

\* C15: concat(arr, false) leaves the receiver's table as it was and returns
\* another map, in which the count of every token is the receiver's count plus
\* the number of elements of arr with that token; concat(arr, true) does the
\* same to the receiver and returns the receiver. (Stated for receivers whose
\* records lie under the tokens of their hash function.)
C15_ConcatAddsOccurrences ==
    (last.op \in {"concat", "concatNew"}
       /\ Consistent(prev.heap, prev.maps[last.on])) =>
        LET x == last.on
            old == PrevTable(x)
            res == IF last.op = "concat" THEN Table(x) ELSE Table("b")
        IN /\ ~threw
           /\ last.op = "concatNew" =>
                  /\ Table(x) = old
                  /\ maps["b"].counts # maps[x].counts
                  /\ maps["b"].hash = maps[x].hash
                  /\ maps["b"].allowNegativeCounts = maps[x].allowNegativeCounts
           /\ last.op = "concat" => maps = prev.maps /\ ret = maps[x]
           /\ \A t \in Tokens :
                  CountAt(res, t)
                      = CountAt(old, t) + Occurrences(last.arr, maps[x].hash, t)
           /\ DOMAIN res = (DOMAIN old) \cup
                  {Hash(maps[x].hash, last.arr[i]) : i \in 1 .. Len(last.arr)}

\* C13: equals is symmetric and reflexive. A map built from the array, the
\* hash function and the flag that give another map its table is equal to that
\* map, both ways. Maps whose flags differ, or whose hash functions are written
\* differently (even when they compute the same tokens), are not equal.
C13_EqualsSymmetricReflexive ==
    /\ \A x \in MapIds, y \in MapIds :
           (Exists(x) /\ Exists(y)) =>
               /\ equals(heap, maps[x], maps[y]) = equals(heap, maps[y], maps[x])
               /\ equals(heap, maps[x], maps[x])
               /\ (maps[x].allowNegativeCounts # maps[y].allowNegativeCounts
                     \/ maps[x].hash # maps[y].hash)
                      => ~equals(heap, maps[x], maps[y])
    /\ (last.op = "constructor" /\ last.on = "b" /\ Exists("a")
          /\ maps["a"].hash = maps["b"].hash
          /\ maps["a"].allowNegativeCounts = maps["b"].allowNegativeCounts
          /\ Table("a") = Table("b")) =>
           /\ equals(heap, maps["a"], maps["b"])
           /\ equals(heap, maps["b"], maps["a"])
    /\ last.op = "equals" =>
           ret = equals(prev.heap, prev.maps[last.on], prev.maps[last.key])

\* equals asked of two maps with the same records and flag, one with the
\* default hash function and one with the same function in other words
C13_Witness ==
    /\ last.op = "equals" /\ ret = FALSE
    /\ last.on # last.key
    /\ Exists("a") /\ Exists("b")
    /\ Table("a") = Table("b") /\ DOMAIN Table("a") # {}
    /\ maps["a"].allowNegativeCounts = maps["b"].allowNegativeCounts
    /\ maps["a"].hash = "defaultHash" /\ maps["b"].hash = "renamedHash"

\* C14: a.equals(b) is true exactly when the hash functions are the same, the
\* flags are equal, and the two tables hold the same tokens with the same
\* count under each (a map with a record for a token is not equal to a map
\* without a record for it).
C14_EqualsIffSameTables ==
    \A x \in MapIds, y \in MapIds :
        (Exists(x) /\ Exists(y)) =>
            (equals(heap, maps[x], maps[y])
               <=> /\ HashSource(maps[x].hash) = HashSource(maps[y].hash)
                   /\ maps[x].allowNegativeCounts = maps[y].allowNegativeCounts
                   /\ DOMAIN Table(x) = DOMAIN Table(y)
                   /\ \A t \in DOMAIN Table(x) :
                          Table(x)[t].count = Table(y)[t].count)


============================================================================
